---------------------------- MODULE Spec2Model ----------------------------
(***************************************************************************)
(* Model of MongoCopy: the CLI entry point main() and the service class    *)
(* MongoCopyService (initClients, listCollections, copyCollections,        *)
(* copyCollection, exportBatchToJson, importBatchFromJson, closeClients).  *)
(*                                                                         *)
(* A document is identified by its _id: a number (a positive integer), an  *)
(* ObjectId or a string.  A source collection of n documents holds either  *)
(* the numbers 1..n or the ObjectIds 1..n, in cursor order; collections of *)
(* ObjectIds are drawn where documents pass through a file and back        *)
(* (SpecRuns, SpecRoundTrip).  JSON.stringify writes an ObjectId as its    *)
(* hex string and JSON.parse gives that string back, not the ObjectId.  A  *)
(* file is a sequence of tokens, appending concatenates token sequences    *)
(* and parsing accepts exactly one array.                                  *)
(* The destination store enforces the unique _id index of MongoDB.  The    *)
(* source store is not written to while the tool runs.  A document of a    *)
(* backup file may carry no _id (NoId); the store then generates one.      *)
(*                                                                         *)
(* Store and file calls may fail, up to MaxFaults times in a behaviour;    *)
(* a close() that rejects leaves its handle as it was.                     *)
(*                                                                         *)
(* Specifications: Spec (one invocation, any command line), SpecRuns (an   *)
(* export followed by a second invocation), SpecRoundTrip (the same, no    *)
(* store, cursor or file call failing), SpecImport and SpecExport (an      *)
(* import, an export, with files already in the output directory),         *)
(* SpecBatch (any batch size main and the constructor let through),        *)
(* SpecClose and SpecResolve (closeClients, listCollections called on a    *)
(* service directly, more than once).                                      *)
(***************************************************************************)
EXTENDS Integers, Sequences, FiniteSets, TLC

\* ------------------------------------------------------------- bounds --
MaxDocs == 3
MaxBatch == 3
MaxReq == 2
MaxFaults == 1
MaxFileDocs == 2
MaxCloses == 3
MaxLists == 3
MaxSpin == 2

Names == {"users", "posts"}

\* ------------------------------------------------------------ helpers --
SeqsUpTo(S, n) == UNION {[1..k -> S] : k \in 0..n}

Range(s) == {s[i] : i \in DOMAIN s}

Min(a, b) == IF a < b THEN a ELSE b

\* The orders in which the source store can return its collection names.
StoreOrders ==
    {s \in SeqsUpTo(Names, Cardinality(Names)) :
        \A i, j \in DOMAIN s : i # j => s[i] # s[j]}

\* The documents 1..n, in cursor order.
Docs(n) == [i \in 1..n |-> i]

\* The i-th ObjectId, and the string its toHexString() gives.  They are
\* encoded as the negative even and the negative odd integers, so that a
\* number, an ObjectId and a string are never equal.
ObjectId(i) == 0 - 2 * i
HexString(i) == 1 - 2 * i
IsObjectId(d) == d < 0 /\ (0 - d) % 2 = 0

\* n documents whose _id the store assigned, in cursor order.
OidDocs(n) == [i \in 1..n |-> ObjectId(i)]

\* What JSON.stringify writes for a document: it calls the value's
\* toJSON(), which for an ObjectId is toHexString(); numbers and strings
\* are written as they are.
ToJSON(d) == IF IsObjectId(d) THEN HexString((0 - d) \div 2) ELSE d

\* ------------------------------------------------------ JSON file text --
LB == [t |-> "[", d |-> 0]
RB == [t |-> "]", d |-> 0]
COMMA == [t |-> ",", d |-> 0]
\* The text of one document; JSON.parse gives back what the text holds.
DocTok(d) == [t |-> "doc", d |-> ToJSON(d)]

NoFile == [exists |-> FALSE, text |-> <<>>]

RECURSIVE JoinDocs(_)
JoinDocs(batch) ==
    IF Len(batch) = 0 THEN <<>>
    ELSE IF Len(batch) = 1 THEN <<DocTok(batch[1])>>
    ELSE <<DocTok(batch[1]), COMMA>> \o JoinDocs(Tail(batch))

\* JSON.stringify(batch, null, 2): one array, elements separated by commas.
JsonStringify(batch) == <<LB>> \o JoinDocs(batch) \o <<RB>>

ParseError == [ok |-> FALSE, docs |-> <<>>]

\* The elements of an array, a document expected at position i.
RECURSIVE ParseElems(_, _, _)
ParseElems(text, i, acc) ==
    IF i + 1 > Len(text) \/ text[i].t # "doc" THEN ParseError
    ELSE IF text[i + 1] = RB
         THEN IF i + 1 = Len(text)
              THEN [ok |-> TRUE, docs |-> Append(acc, text[i].d)]
              ELSE ParseError
    ELSE IF text[i + 1] = COMMA
         THEN ParseElems(text, i + 2, Append(acc, text[i].d))
    ELSE ParseError

\* JSON.parse(text): the whole text must be one value; here, one array of
\* documents.  Anything else (the empty text, two arrays side by side)
\* throws a SyntaxError.
JsonParse(text) ==
    IF Len(text) < 2 \/ text[1] # LB THEN ParseError
    ELSE IF text[2] = RB
         THEN IF Len(text) = 2 THEN [ok |-> TRUE, docs |-> <<>>] ELSE ParseError
    ELSE ParseElems(text, 2, <<>>)

\* ------------------------------------------------------ pure functions --
\* names.includes(c)
Includes(names, c) == \E i \in DOMAIN names : names[i] = c

\* A filter of the store's names by the request: the store's order, not the
\* request's.
RECURSIVE FilterRequested_StoreOrder(_, _)
FilterRequested_StoreOrder(req, names) ==
    IF Len(names) = 0 THEN <<>>
    ELSE IF Includes(req, Head(names))
         THEN <<Head(names)>> \o FilterRequested_StoreOrder(req, Tail(names))
         ELSE FilterRequested_StoreOrder(req, Tail(names))

\* this.collections.filter((c) => names.includes(c))
RECURSIVE FilterRequested(_, _)
FilterRequested(req, names) ==
    IF Len(req) = 0 THEN <<>>
    ELSE IF Includes(names, Head(req))
         THEN <<Head(req)>> \o FilterRequested(Tail(req), names)
         ELSE FilterRequested(Tail(req), names)

\* listCollections: the new value of this.collections.
ResolvePlan(req, names) ==
    IF Len(req) = 0 THEN names ELSE FilterRequested(req, names)

\* ------------------------------------------------------ command line --
\* A piece of the --collections value between two commas: a name, or
\* nothing, with or without blanks around it.
Cells == [name : Names \cup {""}, padded : BOOLEAN]

\* s.trim()
Trim(cell) == cell.name

\* normalizeCollections(raw): split at the commas, trim, drop what is empty.
RECURSIVE NormalizeCollections(_)
NormalizeCollections(raw) ==
    IF Len(raw) = 0 THEN <<>>
    ELSE IF Trim(Head(raw)) = ""
         THEN NormalizeCollections(Tail(raw))
         ELSE <<Trim(Head(raw))>> \o NormalizeCollections(Tail(raw))

\* The lists of names a --collections value of up to MaxReq pieces gives.
Requests == {NormalizeCollections(raw) : raw \in SeqsUpTo(Cells, MaxReq)}

\* ------------------------------------------------------- batch size --
\* A value that may not be a finite number: opts.batchSize is undefined
\* without --batch-size and NaN when parseInt fails.
NotANumber == [finite |-> FALSE, n |-> 0]
Num(n) == [finite |-> TRUE, n |-> n]

DefaultBatchSize == 1000

\* main: the batch size handed to the service, from --batch-size and from
\* env.BATCH_SIZE.
MainBatchSize(cli, env) ==
    IF cli.finite /\ cli.n > 0 THEN cli.n
    ELSE IF env.finite THEN env.n
    ELSE DefaultBatchSize

\* constructor: options.batchSize || 1000
ServiceBatchSize(b) == IF b = 0 THEN DefaultBatchSize ELSE b

\* An inner loop that runs once too often (i <= batchSize).
ReadBatch_OneMore(docs, pos, b) ==
    [i \in 1..Min(b + 1, Len(docs) - pos) |-> docs[pos + i]]

\* The inner for loop of copyCollection: up to b documents from position
\* pos (the number of documents the cursor has already returned).
ReadBatch(docs, pos, b) ==
    [i \in 1..Min(b, Len(docs) - pos) |-> docs[pos + i]]

\* The cursor calls of one turn of the while loop that reads k documents:
\* hasNext() for the while, hasNext() and next() for each document, and one
\* more hasNext() when the cursor ran out before the batch was full.
TurnCalls(k, b) == 1 + 2 * k + (IF k < b THEN 1 ELSE 0)

\* The points of a turn at which a cursor call can reject, with the
\* documents the cursor has delivered in this turn by then and the cursor
\* calls issued, the rejecting one included: the hasNext() of the while; the
\* hasNext() before a document; the next() for it.
ReadFaultPoints(docs, pos, b) ==
    LET k == Len(ReadBatch(docs, pos, b))
    IN  {[taken |-> 0, calls |-> 1]}
        \cup (IF pos < Len(docs)
              THEN {[taken |-> j, calls |-> 2 * j + 2] :
                       j \in {i \in 0..k : i < b}}
                   \cup {[taken |-> j, calls |-> 2 * j + 3] : j \in 0..(k - 1)}
              ELSE {})

\* A counter of batches instead of documents.
NextProcessed_PerBatch(p, batch) == p + 1

\* processed += batch.length
NextProcessed(p, batch) == p + Len(batch)

\* A document that carries no _id: the store gives it a new one when it is
\* inserted, so it never collides.
NoId == 0

\* The documents of docs the destination accepts: those whose _id is neither
\* in the collection already nor earlier in the same call.
RECURSIVE Fresh(_, _)
Fresh(existing, docs) ==
    IF Len(docs) = 0 THEN <<>>
    ELSE IF Head(docs) # NoId /\ Includes(existing, Head(docs))
         THEN Fresh(existing, Tail(docs))
         ELSE <<Head(docs)>> \o Fresh(Append(existing, Head(docs)), Tail(docs))

\* The elements of s at the positions in S, in order.
RECURSIVE Pick(_, _, _)
Pick(s, S, i) ==
    IF i > Len(s) THEN <<>>
    ELSE IF i \in S THEN <<s[i]>> \o Pick(s, S, i + 1)
    ELSE Pick(s, S, i + 1)

\* destCol.insertMany(docs, { ordered: false }) when the store is reachable:
\* every document that does not collide is inserted; a collision makes the
\* call reject after the others were inserted.  An empty list of documents
\* is rejected by the driver before anything is sent.
InsertMany(existing, docs) ==
    LET fresh == Fresh(existing, docs)
    IN  [docs |-> existing \o fresh,
         err  |-> IF Len(docs) = 0 THEN "empty"
                  ELSE IF Len(fresh) = Len(docs) THEN "none" ELSE "duplicate"]

\* -------------------------------------------------------------- state --
VARIABLES
    \* the command line, then the fields of MongoCopyService
    requested,      \* collections given on the command line, normalised
    collections,    \* this.collections
    batchSize,      \* this.batchSize
    dryRun,         \* this.dryRun
    yes,            \* this.yes
    exportJson,     \* this.exportJson
    importJson,     \* this.importJson
    \* the world outside the process
    storeNames,     \* the source's collection names, as the store lists them
    srcDocs,        \* the source's documents, per collection
    dest,           \* the destination's documents, per collection
    files,          \* {outputDir}/{name}.json, per collection
    dirExists,      \* whether outputDir exists
    appends,        \* appendFileSync calls that returned, per file
    torn,           \* files a failed appendFileSync created or wrote to
    \* the process
    pc,             \* where main() and the service stand
    srcClient,      \* this.sourceClient: absent, created, open or closed
    dstClient,      \* this.destClient
    idx,            \* position of the for loop in the plan (0 before it)
    totalDocs,      \* copyCollection: totalDocs
    processed,      \* copyCollection: processed
    cursorPos,      \* documents the cursor has returned
    spinner,        \* idle, spinning, succeed or fail
    exitCode,       \* process.exit code, -1 while running
    \* what the run has done so far
    batchLens,      \* lengths of the batches built for the current collection
    reports,        \* the processed counts shown for the current collection
    closeCalls,     \* calls of closeClients
    everOpened,     \* whether a store handle was ever connected
    finished,       \* "Operation finished." was logged
    surfaced,       \* main's catch logged "Operation failed: ..."
    failure,        \* what made the run fail, "none" if nothing did
    failedAt,       \* plan position at which streaming failed, 0 if none
    ioIdx,          \* plan positions for which a store or file call was issued
    readOps,        \* countDocuments, hasNext and next calls issued
    insertLog,      \* insertMany calls issued: collection and batch length
    fileOps,        \* fs calls issued
    written,        \* collections whose file was appended to
    \* across invocations of the tool
    phase,          \* first or second invocation
    prev,           \* how the first invocation ended
    faults,         \* store and file failures so far
    \* the last call of closeClients
    closeTried,     \* the handles whose close() was called
    closeRaised,    \* whether closeClients rejected
    plans           \* what the calls of listCollections returned, in order

cfgVars == <<requested, collections, batchSize, dryRun, yes, exportJson, importJson>>
srcVars == <<storeNames, srcDocs>>
sinkVars == <<dest, files, dirExists, appends, torn>>
clientVars == <<srcClient, dstClient, everOpened>>
streamVars == <<totalDocs, processed, cursorPos, batchLens, reports>>
opVars == <<ioIdx, readOps, insertLog, fileOps, written>>
endVars == <<exitCode, finished, surfaced>>
runVars == <<phase, prev>>
closeVars == <<closeTried, closeRaised>>

vars == <<cfgVars, srcVars, sinkVars, clientVars, streamVars, opVars, endVars,
          runVars, closeVars, plans, pc, idx, spinner, closeCalls, failure,
          failedAt, faults>>

\* A loop that does not test the flag.
IsDryRun_Ignored == FALSE

\* if (this.dryRun) { ... continue; }
IsDryRun == dryRun

\* A check of the two JSON flags that never rejects.
BothJsonFlags_Never == FALSE

\* main: if (exportJson && importJson)
BothJsonFlags == exportJson /\ importJson

\* The mode the sink is selected by: exportJson is tested first.
Mode == IF exportJson THEN "export" ELSE IF importJson THEN "import" ELSE "live"

\* The collection the for loop is at.
CurName == collections[idx]

\* ---------------------------------------------------------------- sink --
\* What one call of the sink does when no store or file call fails on its
\* own: the new file, directory and destination, the calls issued, and the
\* error it throws ("none" if it returns).
Outcome(err, file, dir, docs, fsCalls, inserts, wrote) ==
    [err |-> err, file |-> file, dir |-> dir, docs |-> docs,
     fsCalls |-> fsCalls, inserts |-> inserts, wrote |-> wrote]

\* An export that writes the file anew on every call (writeFileSync).
ExportBatchToJson_Overwrite(batch, name) ==
    Outcome("none",
            [exists |-> TRUE, text |-> JsonStringify(batch)],
            TRUE, dest[name], IF dirExists THEN 2 ELSE 3, <<>>, {name})

\* exportBatchToJson(batch, name)
ExportBatchToJson(batch, name) ==
    Outcome("none",
            [exists |-> TRUE, text |-> files[name].text \o JsonStringify(batch)],
            TRUE, dest[name], IF dirExists THEN 2 ELSE 3, <<>>, {name})

\* An import that reads the file without testing that it exists: reading an
\* absent file throws.
ImportBatchFromJson_NoExistsCheck(name) ==
    IF ~files[name].exists
    THEN Outcome("enoent", files[name], dirExists, dest[name], 1, <<>>, {})
    ELSE LET p == JsonParse(files[name].text)
         IN  IF ~p.ok
             THEN Outcome("parse", files[name], dirExists, dest[name], 2, <<>>, {})
             ELSE LET r == InsertMany(dest[name], p.docs)
                  IN  Outcome(r.err, files[name], dirExists, r.docs, 2,
                              <<[name |-> name, n |-> Len(p.docs)]>>, {})

\* An import that is done once per collection: a call that finds documents
\* in the destination collection already does nothing.
ImportBatchFromJson_OncePerCollection(name) ==
    IF ~files[name].exists \/ dest[name] # <<>>
    THEN Outcome("none", files[name], dirExists, dest[name], 1, <<>>, {})
    ELSE LET p == JsonParse(files[name].text)
         IN  IF ~p.ok
             THEN Outcome("parse", files[name], dirExists, dest[name], 2, <<>>, {})
             ELSE LET r == InsertMany(dest[name], p.docs)
                  IN  Outcome(r.err, files[name], dirExists, r.docs, 2,
                              <<[name |-> name, n |-> Len(p.docs)]>>, {})

\* importBatchFromJson(name)
ImportBatchFromJson(name) ==
    IF ~files[name].exists
    THEN Outcome("none", files[name], dirExists, dest[name], 1, <<>>, {})
    ELSE LET p == JsonParse(files[name].text)
         IN  IF ~p.ok
             THEN Outcome("parse", files[name], dirExists, dest[name], 2, <<>>, {})
             ELSE LET r == InsertMany(dest[name], p.docs)
                  IN  Outcome(r.err, files[name], dirExists, r.docs, 2,
                              <<[name |-> name, n |-> Len(p.docs)]>>, {})

\* A live sink that drops the first document of every batch.
LiveInsert_DropsFirst(batch, name) ==
    LET r == InsertMany(dest[name], Tail(batch))
    IN  Outcome(r.err, files[name], dirExists, r.docs, 0,
                <<[name |-> name, n |-> Len(batch)]>>, {})

\* destCol.insertMany(batch, { ordered: false })
LiveInsert(batch, name) ==
    LET r == InsertMany(dest[name], batch)
    IN  Outcome(r.err, files[name], dirExists, r.docs, 0,
                <<[name |-> name, n |-> Len(batch)]>>, {})

\* if (this.exportJson) ... else if (this.importJson) ... else ...
Sink(batch, name) ==
    IF exportJson THEN ExportBatchToJson(batch, name)
    ELSE IF importJson THEN ImportBatchFromJson(name)
    ELSE LiveInsert(batch, name)

\* An insertMany that the store fails: any part of the documents it would
\* have accepted may have been inserted.
FailedInserts(name, docs, fsCalls) ==
    LET fresh == Fresh(dest[name], docs)
    IN  {Outcome("sink", files[name], dirExists,
                 dest[name] \o Pick(fresh, S, 1), fsCalls,
                 <<[name |-> name, n |-> Len(docs)]>>, {}) :
            S \in SUBSET (1..Len(fresh))}

\* What an appendFileSync that throws leaves of the file: the file as it
\* was, or the file created or extended by a part of the text (none of it,
\* when the write failed right after the file was opened).
FailedAppends(file, text) ==
    {file} \cup {[exists |-> TRUE, text |-> file.text \o SubSeq(text, 1, n)] :
                    n \in 0..(Len(text) - 1)}

\* The ways one call of the sink can fail on a store or file failure.
SinkFaults(batch, name) ==
    IF exportJson
    THEN \* mkdirSync throws; or appendFileSync throws, after the directory
         \* was made if it was absent
         (IF dirExists THEN {}
          ELSE {Outcome("sink", files[name], FALSE, dest[name], 2, <<>>, {})})
         \cup {Outcome("sink", f, TRUE, dest[name],
                       IF dirExists THEN 2 ELSE 3, <<>>, {}) :
                  f \in FailedAppends(files[name], JsonStringify(batch))}
    ELSE IF importJson
    THEN IF ~files[name].exists THEN {}
         ELSE \* readFileSync throws, or insertMany rejects
              {Outcome("sink", files[name], dirExists, dest[name], 2, <<>>, {})}
              \cup (IF JsonParse(files[name].text).ok
                     THEN FailedInserts(name, JsonParse(files[name].text).docs, 2)
                     ELSE {})
    ELSE FailedInserts(name, batch, 0)

\* ------------------------------------------------------------ initial --
\* A source's contents: up to MaxDocs documents in each collection it lists.
SourceContents(names) ==
    {f \in [Names -> {Docs(n) : n \in 0..MaxDocs}] :
        \A c \in Names : ~Includes(names, c) => f[c] = <<>>}

\* A source as the store holds it: each collection's documents carry the
\* _ids the application gave them (numbers) or those the store assigned
\* (ObjectIds).
StoredContents(names) ==
    {f \in [Names -> {Docs(n) : n \in 0..MaxDocs}
                        \cup {OidDocs(n) : n \in 1..MaxDocs}] :
        \A c \in Names : ~Includes(names, c) => f[c] = <<>>}

NoPrev == [mode |-> "none", failure |-> "none", spinner |-> "idle", exitCode |-> -1]

\* A process that has just been started: main() has not run yet and no
\* MongoCopyService exists.
ProcessStart ==
    /\ pc = "start"
    /\ srcClient = "absent" /\ dstClient = "absent" /\ everOpened = FALSE
    /\ idx = 0 /\ totalDocs = 0 /\ processed = 0 /\ cursorPos = 0
    /\ batchLens = <<>> /\ reports = <<>>
    /\ spinner = "idle" /\ exitCode = -1
    /\ closeCalls = 0 /\ finished = FALSE /\ surfaced = FALSE
    /\ closeTried = {} /\ closeRaised = FALSE
    /\ plans = <<>>
    /\ failure = "none" /\ failedAt = 0
    /\ ioIdx = {} /\ readOps = 0 /\ insertLog = <<>> /\ fileOps = 0
    /\ written = {}

\* An empty destination and an empty output directory.
EmptySinks ==
    /\ dest = [c \in Names |-> <<>>]
    /\ files = [c \in Names |-> NoFile]
    /\ dirExists = FALSE
    /\ appends = [c \in Names |-> 0]
    /\ torn = {}

\* One invocation of the tool, with any command line.
Init ==
    /\ storeNames \in StoreOrders
    /\ srcDocs \in SourceContents(storeNames)
    /\ requested \in Requests
    /\ collections = requested
    /\ batchSize \in 1..MaxBatch
    /\ dryRun \in BOOLEAN
    /\ yes \in BOOLEAN
    /\ exportJson \in BOOLEAN
    /\ importJson \in BOOLEAN
    /\ EmptySinks
    /\ ProcessStart
    /\ phase = "first" /\ prev = NoPrev /\ faults = 0

\* ------------------------------------------------------------ actions --
\* process.exit(code)
Exit(code) == pc' = "exited" /\ exitCode' = code

\* client?.close(): nothing on an absent handle; a close that rejects leaves
\* the handle as it was.
CloseHandle(h, rejects) ==
    IF h = "absent" THEN "absent" ELSE IF rejects THEN h ELSE "closed"

\* The handles that exist.
Handles ==
    (IF srcClient = "absent" THEN {} ELSE {"source"})
        \cup (IF dstClient = "absent" THEN {} ELSE {"dest"})

\* Whether a close() may reject: like every store failure, within the
\* number of failures considered.
CloseRejections == IF faults < MaxFaults THEN BOOLEAN ELSE {FALSE}

\* A call in which the close() of a handle that exists rejected counts as
\* one failure.
AfterClose(srcRejects, dstRejects) ==
    IF (srcClient # "absent" /\ srcRejects) \/ (dstClient # "absent" /\ dstRejects)
    THEN faults + 1
    ELSE faults

\* A closeClients that awaits one close after the other: a rejected close
\* of the source handle is thrown and the destination handle is left alone.
CloseClients_Sequential ==
    /\ closeCalls' = closeCalls + 1
    /\ \E srcRejects \in CloseRejections, dstRejects \in CloseRejections :
          /\ IF srcClient # "absent" /\ srcRejects
             THEN /\ UNCHANGED <<srcClient, dstClient>>
                  /\ closeTried' = {"source"}
                  /\ closeRaised' = TRUE
             ELSE /\ srcClient' = CloseHandle(srcClient, FALSE)
                  /\ dstClient' = CloseHandle(dstClient, dstRejects)
                  /\ closeTried' = Handles
                  /\ closeRaised' = (dstClient # "absent" /\ dstRejects)
          /\ faults' = AfterClose(srcRejects, dstRejects)
    /\ UNCHANGED everOpened

\* closeClients(): close() is called on every handle that exists, each on
\* its own; Promise.allSettled waits for both and never rejects.
CloseClients ==
    /\ closeCalls' = closeCalls + 1
    /\ \E srcRejects \in CloseRejections, dstRejects \in CloseRejections :
          /\ srcClient' = CloseHandle(srcClient, srcRejects)
          /\ dstClient' = CloseHandle(dstClient, dstRejects)
          /\ faults' = AfterClose(srcRejects, dstRejects)
    /\ closeTried' = Handles
    /\ closeRaised' = FALSE
    /\ UNCHANGED everOpened

\* main(), up to the confirmation: the environment check, the usage check
\* and the check of the two JSON flags.
MainValidate ==
    /\ pc = "start"
    /\ \E envOk \in BOOLEAN, all \in BOOLEAN :
          IF ~envOk
          THEN Exit(1) /\ UNCHANGED <<finished, surfaced>>
          ELSE IF ~all /\ Len(requested) = 0 /\ ~exportJson /\ ~importJson
          THEN Exit(0) /\ UNCHANGED <<finished, surfaced>>
          ELSE IF BothJsonFlags
          THEN Exit(1) /\ UNCHANGED <<finished, surfaced>>
          ELSE /\ pc' = IF yes THEN "initClients" ELSE "confirmMain"
               /\ UNCHANGED endVars
    /\ UNCHANGED <<cfgVars, plans, srcVars, sinkVars, clientVars, streamVars,
                   opVars, runVars, idx, spinner, closeCalls, closeVars,
                   failure, failedAt, faults>>

\* main(): confirmAction, when --yes was not given.
MainConfirm ==
    /\ pc = "confirmMain"
    /\ \E ok \in BOOLEAN :
          IF ok
          THEN pc' = "initClients" /\ UNCHANGED endVars
          ELSE Exit(0) /\ UNCHANGED <<finished, surfaced>>
    /\ UNCHANGED <<cfgVars, plans, srcVars, sinkVars, clientVars, streamVars,
                   opVars, runVars, idx, spinner, closeCalls, closeVars,
                   failure, failedAt, faults>>

\* main()'s catch: the error is logged and the process exits with 1.
MainCatch == surfaced' = TRUE /\ Exit(1) /\ UNCHANGED finished

\* main(): dynamicImportCopyService() rejects; the message is logged and
\* the process exits with 1, before a service exists.
DynamicImportCopyServiceFault ==
    /\ pc = "initClients"
    /\ Exit(1)
    /\ UNCHANGED <<cfgVars, plans, srcVars, sinkVars, clientVars, streamVars,
                   opVars, finished, surfaced, runVars, idx, spinner,
                   closeCalls, closeVars, failure, failedAt, faults>>

\* initClients(): both clients are created, then connected in turn.
InitClientsOk ==
    /\ pc = "initClients"
    /\ srcClient' = "open" /\ dstClient' = "open" /\ everOpened' = TRUE
    /\ pc' = "list"
    /\ UNCHANGED <<cfgVars, plans, srcVars, sinkVars, streamVars, opVars,
                   endVars, runVars, idx, spinner, closeCalls, closeVars,
                   failure, failedAt, faults>>

\* initClients(): a connect rejects; the error reaches main()'s catch.
InitClientsFault ==
    /\ pc = "initClients" /\ faults < MaxFaults
    /\ \E which \in {"source", "dest"} :
          /\ srcClient' = IF which = "source" THEN "created" ELSE "open"
          /\ dstClient' = "created"
          /\ everOpened' = (which = "dest")
    /\ failure' = "connect" /\ faults' = faults + 1
    /\ MainCatch
    /\ UNCHANGED <<cfgVars, plans, srcVars, sinkVars, streamVars, opVars,
                   runVars, idx, spinner, closeCalls, closeVars, failedAt>>

\* listCollections(): the plan is computed from this.collections, stored in
\* this.collections and returned.
ListCollections ==
    /\ collections' = ResolvePlan(collections, storeNames)
    /\ plans' = Append(plans, ResolvePlan(collections, storeNames))

\* copyCollections(): listCollections() resolves; then the spinner starts
\* unless the confirmation is still to be asked.
ListCollectionsOk ==
    /\ pc = "list"
    /\ ListCollections
    /\ pc' = IF yes THEN "loop" ELSE "confirmSvc"
    /\ spinner' = IF yes THEN "spinning" ELSE spinner
    /\ UNCHANGED <<requested, batchSize, dryRun, yes, exportJson, importJson,
                   srcVars, sinkVars, clientVars, streamVars, opVars, endVars,
                   runVars, idx, closeCalls, closeVars, failure, failedAt,
                   faults>>

\* copyCollections(): listCollections() rejects, outside the try block.
ListCollectionsFault ==
    /\ pc = "list" /\ faults < MaxFaults
    /\ failure' = "list" /\ faults' = faults + 1
    /\ MainCatch
    /\ UNCHANGED <<cfgVars, plans, srcVars, sinkVars, clientVars, streamVars,
                   opVars, runVars, idx, spinner, closeCalls, closeVars,
                   failedAt>>

\* copyCollections(): confirm; a refusal returns before the try block.
SvcConfirm ==
    /\ pc = "confirmSvc"
    /\ \E ok \in BOOLEAN :
          IF ok
          THEN pc' = "loop" /\ spinner' = "spinning"
          ELSE pc' = "afterCopy" /\ UNCHANGED spinner
    /\ UNCHANGED <<cfgVars, plans, srcVars, sinkVars, clientVars, streamVars,
                   opVars, endVars, runVars, idx, closeCalls, closeVars,
                   failure, failedAt, faults>>

\* The head of the for loop: the next collection of the plan, skipped on a
\* dry run; after the last one the spinner succeeds.
NextCollection ==
    /\ pc = "loop"
    /\ IF idx < Len(collections)
       THEN /\ idx' = idx + 1
            /\ pc' = IF IsDryRun THEN "loop" ELSE "count"
            /\ UNCHANGED spinner
       ELSE /\ spinner' = "succeed"
            /\ pc' = "finally"
            /\ UNCHANGED idx
    /\ UNCHANGED <<cfgVars, plans, srcVars, sinkVars, clientVars, streamVars,
                   opVars, endVars, runVars, closeCalls, closeVars, failure,
                   failedAt, faults>>

\* The catch block of copyCollections(); the finally block follows.
Abort(kind) ==
    /\ failure' = kind /\ failedAt' = idx
    /\ spinner' = "fail"
    /\ pc' = "finally"

\* copyCollection(): countDocuments(), then the cursor is created.
CountDocuments ==
    /\ pc = "count"
    /\ totalDocs' = Len(srcDocs[CurName])
    /\ processed' = 0 /\ cursorPos' = 0
    /\ batchLens' = <<>> /\ reports' = <<>>
    /\ ioIdx' = ioIdx \cup {idx} /\ readOps' = readOps + 1
    /\ pc' = "batch"
    /\ UNCHANGED <<cfgVars, plans, srcVars, sinkVars, clientVars, insertLog,
                   fileOps, written, endVars, runVars, idx, spinner,
                   closeCalls, closeVars, failure, failedAt, faults>>

\* copyCollection(): countDocuments() rejects.
CountDocumentsFault ==
    /\ pc = "count" /\ faults < MaxFaults
    /\ ioIdx' = ioIdx \cup {idx} /\ readOps' = readOps + 1
    /\ faults' = faults + 1
    /\ Abort("count")
    /\ UNCHANGED <<cfgVars, plans, srcVars, sinkVars, clientVars, streamVars,
                   insertLog, fileOps, written, endVars, runVars, idx,
                   closeCalls, closeVars>>

\* What a call of the sink leaves behind.
Apply(o, name) ==
    /\ dest' = [dest EXCEPT ![name] = o.docs]
    /\ files' = [files EXCEPT ![name] = o.file]
    /\ dirExists' = o.dir
    /\ appends' = [c \in Names |-> appends[c] + IF c \in o.wrote THEN 1 ELSE 0]
    /\ torn' = torn \cup (IF o.err = "sink" /\ o.file # files[name]
                           THEN {name} ELSE {})
    /\ fileOps' = fileOps + o.fsCalls
    /\ insertLog' = insertLog \o o.inserts
    /\ written' = written \cup o.wrote

\* One turn of the while loop: a batch is read and handed to the sink; if
\* the sink returns, the counter advances and progress is shown.
StreamBatch ==
    /\ pc = "batch"
    /\ cursorPos < Len(srcDocs[CurName])
    /\ Len(batchLens) < MaxDocs + MaxSpin
    /\ LET batch == ReadBatch(srcDocs[CurName], cursorPos, batchSize)
           o == Sink(batch, CurName)
       IN  /\ cursorPos' = cursorPos + Len(batch)
           /\ batchLens' = Append(batchLens, Len(batch))
           /\ readOps' = readOps + TurnCalls(Len(batch), batchSize)
           /\ Apply(o, CurName)
           /\ IF o.err = "none"
              THEN /\ processed' = NextProcessed(processed, batch)
                   /\ reports' = Append(reports, NextProcessed(processed, batch))
                   /\ UNCHANGED <<pc, spinner, failure, failedAt>>
              ELSE /\ Abort(o.err)
                   /\ UNCHANGED <<processed, reports>>
    /\ UNCHANGED <<cfgVars, plans, srcVars, clientVars, totalDocs, ioIdx,
                   endVars, runVars, idx, closeCalls, closeVars, faults>>

\* The while loop ends: hasNext() is false and the collection is done.
StreamEnd ==
    /\ pc = "batch"
    /\ cursorPos >= Len(srcDocs[CurName])
    /\ readOps' = readOps + 1
    /\ pc' = "loop"
    /\ UNCHANGED <<cfgVars, plans, srcVars, sinkVars, clientVars, streamVars,
                   ioIdx, insertLog, fileOps, written, endVars, runVars, idx,
                   spinner, closeCalls, closeVars, failure, failedAt, faults>>

\* hasNext() or next() rejects, at any point of a turn: the documents the
\* cursor delivered in this turn are dropped, the sink is not called.
StreamReadFault ==
    /\ pc = "batch" /\ faults < MaxFaults
    /\ \E p \in ReadFaultPoints(srcDocs[CurName], cursorPos, batchSize) :
          /\ cursorPos' = cursorPos + p.taken
          /\ readOps' = readOps + p.calls
    /\ faults' = faults + 1
    /\ Abort("read")
    /\ UNCHANGED <<cfgVars, plans, srcVars, sinkVars, clientVars, totalDocs,
                   processed, batchLens, reports, ioIdx, insertLog, fileOps,
                   written, endVars, runVars, idx, closeCalls, closeVars>>

\* A batch is read and the sink fails on a store or file failure.
StreamSinkFault ==
    /\ pc = "batch" /\ faults < MaxFaults
    /\ cursorPos < Len(srcDocs[CurName])
    /\ Len(batchLens) < MaxDocs + MaxSpin
    /\ LET batch == ReadBatch(srcDocs[CurName], cursorPos, batchSize)
       IN  /\ \E o \in SinkFaults(batch, CurName) : Apply(o, CurName)
           /\ cursorPos' = cursorPos + Len(batch)
           /\ batchLens' = Append(batchLens, Len(batch))
           /\ readOps' = readOps + TurnCalls(Len(batch), batchSize)
    /\ faults' = faults + 1
    /\ Abort("sink")
    /\ UNCHANGED <<cfgVars, plans, srcVars, clientVars, totalDocs, processed,
                   reports, ioIdx, endVars, runVars, idx, closeCalls,
                   closeVars>>

\* The finally block of copyCollections().
FinallyClose ==
    /\ pc = "finally"
    /\ CloseClients
    /\ pc' = "afterCopy"
    /\ UNCHANGED <<cfgVars, plans, srcVars, sinkVars, streamVars, opVars,
                   endVars, runVars, idx, spinner, failure, failedAt>>

\* main(), after copyCollections() returned: closeClients(), the final log
\* line and process.exit(0).
MainFinish ==
    /\ pc = "afterCopy"
    /\ CloseClients
    /\ finished' = TRUE
    /\ Exit(0)
    /\ UNCHANGED <<cfgVars, plans, srcVars, sinkVars, streamVars, opVars,
                   surfaced, runVars, idx, spinner, failure, failedAt>>

Next ==
    \/ MainValidate
    \/ MainConfirm
    \/ DynamicImportCopyServiceFault
    \/ InitClientsOk
    \/ InitClientsFault
    \/ ListCollectionsOk
    \/ ListCollectionsFault
    \/ SvcConfirm
    \/ NextCollection
    \/ CountDocuments
    \/ CountDocumentsFault
    \/ StreamBatch
    \/ StreamEnd
    \/ StreamReadFault
    \/ StreamSinkFault
    \/ FinallyClose
    \/ MainFinish

Spec == Init /\ [][Next]_vars

\* ------------------------------------------- a second run of the tool --
\* The tool is started again with the same command line but for the JSON
\* flag, which is --export-json or --import-json; the stores and the output
\* directory are as the first invocation left them.
NextRun ==
    /\ pc = "exited" /\ phase = "first"
    /\ phase' = "second"
    /\ prev' = [mode |-> Mode, failure |-> failure, spinner |-> spinner,
                exitCode |-> exitCode]
    /\ \E m \in {"export", "import"} :
          /\ exportJson' = (m = "export")
          /\ importJson' = (m = "import")
    /\ collections' = requested
    /\ pc' = "start"
    /\ srcClient' = "absent" /\ dstClient' = "absent" /\ everOpened' = FALSE
    /\ idx' = 0 /\ totalDocs' = 0 /\ processed' = 0 /\ cursorPos' = 0
    /\ batchLens' = <<>> /\ reports' = <<>>
    /\ spinner' = "idle" /\ exitCode' = -1
    /\ closeCalls' = 0 /\ finished' = FALSE /\ surfaced' = FALSE
    /\ closeTried' = {} /\ closeRaised' = FALSE
    /\ plans' = <<>>
    /\ failure' = "none" /\ failedAt' = 0
    /\ ioIdx' = {} /\ readOps' = 0 /\ insertLog' = <<>> /\ fileOps' = 0
    /\ written' = {}
    /\ UNCHANGED <<requested, batchSize, dryRun, yes, srcVars, sinkVars,
                   faults>>

\* An export with --yes, then a second invocation.
InitRuns ==
    /\ storeNames \in StoreOrders
    /\ srcDocs \in StoredContents(storeNames)
    /\ requested \in Requests
    /\ collections = requested
    /\ batchSize \in 1..MaxBatch
    /\ dryRun = FALSE
    /\ yes = TRUE
    /\ exportJson = TRUE
    /\ importJson = FALSE
    /\ EmptySinks
    /\ ProcessStart
    /\ phase = "first" /\ prev = NoPrev /\ faults = 0

NextRuns ==
    \/ MainValidate
    \/ DynamicImportCopyServiceFault
    \/ InitClientsOk
    \/ InitClientsFault
    \/ ListCollectionsOk
    \/ ListCollectionsFault
    \/ NextCollection
    \/ CountDocuments
    \/ CountDocumentsFault
    \/ StreamBatch
    \/ StreamEnd
    \/ StreamReadFault
    \/ StreamSinkFault
    \/ FinallyClose
    \/ MainFinish
    \/ NextRun

SpecRuns == InitRuns /\ [][NextRuns]_vars

\* An export with --yes into an empty directory, then a second invocation,
\* in which no store, cursor or file call fails on its own; a close() may
\* still reject.
NextRoundTrip ==
    \/ MainValidate
    \/ InitClientsOk
    \/ ListCollectionsOk
    \/ NextCollection
    \/ CountDocuments
    \/ StreamBatch
    \/ StreamEnd
    \/ FinallyClose
    \/ MainFinish
    \/ NextRun

SpecRoundTrip == InitRuns /\ [][NextRoundTrip]_vars

\* -------------------------------------------------------------- claims --
Sum(s) == LET RECURSIVE Go(_)
              Go(i) == IF i = 0 THEN 0 ELSE s[i] + Go(i - 1)
          IN  Go(Len(s))

\* The process has ended.
Exited == pc = "exited"

\* The for loop of copyCollections was entered and has been left.
LoopLeft == pc \in {"finally", "afterCopy", "exited"} /\ spinner # "idle"

\* The collection at the loop's position has just been streamed to its end.
StreamedToEnd == pc = "loop" /\ idx > 0 /\ ~dryRun

\* C1: when streaming fails at position k of the plan, no store or file call
\* is issued for the positions after k, and closeClients has been called
\* exactly once when the run ends.
C1_AbortSkipsRestAndClosesOnce ==
    (failedAt > 0 /\ failure \in {"read", "sink", "parse", "duplicate"}) =>
        /\ \A i \in ioIdx : i <= failedAt
        /\ idx = failedAt
        /\ Exited => closeCalls = 1

\* C2: a run in which streaming failed never logs "Operation finished." and
\* never exits with 0; it ends with the error surfaced and exit code 1.
C2_StreamFailureEndsInFailure ==
    failedAt > 0 =>
        /\ ~finished
        /\ exitCode # 0
        /\ Exited => (surfaced /\ exitCode = 1)

\* C3: a run that connected a store handle does not end before closeClients
\* was called, and ends with no handle left open.
C3_CleanupOnEveryExit ==
    (Exited /\ everOpened) =>
        /\ closeCalls >= 1
        /\ srcClient # "open"
        /\ dstClient # "open"

\* C4: on a dry run, in every mode, no insert is issued, no file or directory
\* is created, read or appended to and no count or cursor call is issued;
\* the loop still visits every collection of the plan and the job ends
\* Completed.
C4_DryRunTouchesNothing ==
    dryRun =>
        /\ insertLog = <<>> /\ dest = [c \in Names |-> <<>>]
        /\ fileOps = 0 /\ written = {} /\ ~dirExists
        /\ files = [c \in Names |-> NoFile]
        /\ readOps = 0 /\ ioIdx = {}
        /\ spinner # "fail" /\ failedAt = 0
        /\ LoopLeft => (spinner = "succeed" /\ idx = Len(collections))
        /\ (Exited /\ spinner = "succeed") => exitCode = 0

C4_Witness ==
    /\ dryRun /\ exportJson /\ Exited /\ spinner = "succeed"
    /\ collections = <<"users", "posts">> /\ idx = 2
    /\ srcDocs["users"] = Docs(3)

\* The positions of the request whose name the store lists.
Kept(req, names) == {i \in DOMAIN req : req[i] \in Range(names)}

\* The k-th smallest element of a set of numbers.
KthSmallest(I, k) == CHOOSE i \in I : Cardinality({j \in I : j < i}) = k - 1

\* listCollections has resolved in this run.
Listed ==
    \/ pc \in {"confirmSvc", "loop", "count", "batch", "finally", "afterCopy"}
    \/ Exited /\ finished

\* C5: listCollections returns the store's names, in the store's order, for
\* an empty request; otherwise the request's names that the store lists, in
\* the request's order, the others dropped without an error.
C5_PlanIsOrderedIntersection ==
    Listed =>
        IF Len(requested) = 0
        THEN collections = storeNames
        ELSE LET I == Kept(requested, storeNames)
             IN  /\ Len(collections) = Cardinality(I)
                 /\ \A k \in 1..Len(collections) :
                        collections[k] = requested[KthSmallest(I, k)]
                 /\ failure # "list"

C5_Witness ==
    /\ Listed
    /\ requested = <<"posts", "users">>
    /\ storeNames = <<"users", "posts">>
    /\ collections = <<"posts", "users">>

\* C6: a collection of n documents streamed to its end with batch size b > 0
\* was handed to the sink in ceil(n/b) batches, each but the last of length
\* b, the last of length n mod b (b when that is 0), none of them empty.
C6_BatchShape ==
    (StreamedToEnd /\ batchSize > 0) =>
        LET n == Len(srcDocs[CurName])
            b == batchSize
            k == Len(batchLens)
        IN  /\ k = (n + b - 1) \div b
            /\ \A i \in 1..k : batchLens[i] > 0
            /\ \A i \in 1..(k - 1) : batchLens[i] = b
            /\ k > 0 => batchLens[k] = (IF n % b = 0 THEN b ELSE n % b)
            /\ n = 0 => batchLens = <<>>

C6_Witness ==
    /\ StreamedToEnd
    /\ batchSize = 2 /\ Len(srcDocs[CurName]) = 3
    /\ batchLens = <<2, 1>>

\* The insertMany calls a live copy of the plan issues: for each collection
\* in turn, its batches in turn.
RECURSIVE BatchesOf(_, _, _)
BatchesOf(name, n, b) ==
    IF n <= 0 THEN <<>>
    ELSE <<[name |-> name, n |-> Min(b, n)]>> \o BatchesOf(name, n - b, b)

RECURSIVE PlanInserts(_)
PlanInserts(plan) ==
    IF Len(plan) = 0 THEN <<>>
    ELSE BatchesOf(Head(plan), Len(srcDocs[Head(plan)]), batchSize)
         \o PlanInserts(Tail(plan))

\* C7: a live copy in which no store call failed ends Completed with, in
\* every collection of the plan, exactly the source's documents, each
\* inserted once, batch by batch; an empty collection gets no insert call.
C7_LiveCopyIsExact ==
    (~exportJson /\ ~importJson /\ ~dryRun /\ LoopLeft /\ failure = "none") =>
        /\ spinner = "succeed"
        /\ \A c \in Range(collections) : dest[c] = srcDocs[c]
        /\ \A c \in Names \ Range(collections) : dest[c] = <<>>
        /\ insertLog = PlanInserts(collections)

C7_Witness ==
    /\ ~exportJson /\ ~importJson /\ ~dryRun /\ Exited /\ spinner = "succeed"
    /\ collections = <<"users", "posts">> /\ batchSize = 2
    /\ srcDocs["users"] = Docs(3) /\ srcDocs["posts"] = <<>>
    /\ dest["users"] = <<1, 2, 3>> /\ dest["posts"] = <<>>
    /\ insertLog = <<[name |-> "users", n |-> 2], [name |-> "users", n |-> 1]>>

\* C8: after a collection was streamed to its end the counter is the sum of
\* the batch lengths and the count taken before the cursor was opened; every
\* progress report shows more than the one before and at most that count.
C8_ProcessedCounts ==
    /\ StreamedToEnd => (processed = Sum(batchLens) /\ processed = totalDocs)
    /\ \A i \in DOMAIN reports :
          /\ reports[i] <= totalDocs
          /\ reports[i] > (IF i = 1 THEN 0 ELSE reports[i - 1])
    /\ reports # <<>> => processed = reports[Len(reports)]

C8_Witness ==
    /\ StreamedToEnd
    /\ reports = <<2, 3>> /\ processed = 3 /\ totalDocs = 3

\* C9: an export of a plan of one collection that fits in one batch writes
\* exactly that collection's file, and the file then parses as one array
\* equal to the source's documents.
C9_SingleBatchExportFile ==
    (exportJson /\ ~importJson /\ ~dryRun /\ Exited /\ spinner = "succeed"
        /\ Len(collections) = 1
        /\ Len(srcDocs[collections[1]]) <= batchSize) =>
        LET c == collections[1]
        IN  /\ written = {c}
            /\ files[c].exists
            /\ JsonParse(files[c].text) = [ok |-> TRUE, docs |-> srcDocs[c]]

\* Failures of the stores or the file system, as opposed to those the
\* program's own data causes (a file that does not parse, a duplicate _id).
Injected == {"connect", "list", "count", "read", "sink"}

\* C10: for every collection of the plan that holds 1..batchSize documents,
\* an export into an empty directory followed by an import from the same
\* source, no store or file call failing, leaves in the destination
\* collection exactly the source's documents, each once.
C10_ExportThenImport ==
    (/\ phase = "second" /\ importJson /\ Exited /\ spinner # "idle"
     /\ prev.mode = "export" /\ prev.spinner = "succeed"
     /\ failure \notin Injected) =>
        \A c \in Range(collections) :
            Len(srcDocs[c]) \in 1..batchSize =>
                /\ Range(dest[c]) = Range(srcDocs[c])
                /\ Len(dest[c]) = Len(srcDocs[c])


\* ------------------------------------------------ an import of a backup --
\* The documents a backup file can hold: documents with an _id, as an
\* export writes them, or documents without one.
BackupDocs ==
    {Docs(m) : m \in 0..MaxFileDocs}
        \cup {[i \in 1..m |-> NoId] : m \in 1..MaxFileDocs}

\* A file of the output directory before an import: absent, or one array.
BackupFiles ==
    {NoFile} \cup {[exists |-> TRUE, text |-> JsonStringify(d)] : d \in BackupDocs}

\* An invocation with --import-json and --yes; the output directory holds
\* any files, the destination is empty.
InitImport ==
    /\ storeNames \in StoreOrders
    /\ srcDocs \in SourceContents(storeNames)
    /\ requested \in Requests
    /\ collections = requested
    /\ batchSize \in 1..MaxBatch
    /\ dryRun = FALSE
    /\ yes = TRUE
    /\ exportJson = FALSE
    /\ importJson = TRUE
    /\ dest = [c \in Names |-> <<>>]
    /\ files \in [Names -> BackupFiles]
    /\ dirExists = \E c \in Names : files[c].exists
    /\ appends = [c \in Names |-> IF files[c].exists THEN 1 ELSE 0]
    /\ torn = {}
    /\ ProcessStart
    /\ phase = "first" /\ prev = NoPrev /\ faults = 0

\* The import as the code runs it when no connect, listing, count, cursor,
\* insert or file call fails on its own; what the code itself raises (a file
\* that does not parse, a duplicate _id, an empty insert) is part of it.
NextImport ==
    \/ MainValidate
    \/ InitClientsOk
    \/ ListCollectionsOk
    \/ NextCollection
    \/ CountDocuments
    \/ StreamBatch
    \/ StreamEnd
    \/ FinallyClose
    \/ MainFinish

SpecImport == InitImport /\ [][NextImport]_vars

\* The insertMany calls issued for collection c.
InsertsFor(c) == {i \in DOMAIN insertLog : insertLog[i].name = c}

\* C11: in import mode a collection of the plan whose file is absent gets no
\* insert and raises no error: a failure that arises in the sink arises at a
\* collection whose file exists; the loop goes on after such a collection,
\* and a run in which nothing fails processes every collection of the plan,
\* reports success, runs the cleanup and exits with 0.
C11_AbsentFileIsNoOp ==
    /\ \A c \in Names :
          ~files[c].exists => InsertsFor(c) = {} /\ dest[c] = <<>>
    /\ (failedAt > 0 /\ failure \notin {"none", "count", "read"}) =>
          files[collections[failedAt]].exists
    /\ (LoopLeft /\ failure = "none") =>
          /\ spinner = "succeed"
          /\ idx = Len(collections)
          /\ ioIdx = 1..Len(collections)
    /\ (Exited /\ LoopLeft /\ failure = "none") =>
          exitCode = 0 /\ finished /\ ~surfaced /\ closeCalls >= 1

\* A completed import of two collections: the file of the first is absent
\* although its source collection has documents, the second was imported.
C11_Witness ==
    /\ Exited /\ exitCode = 0 /\ failure = "none"
    /\ Len(collections) = 2
    /\ ~files[collections[1]].exists
    /\ Len(srcDocs[collections[1]]) >= 1
    /\ files[collections[2]].exists
    /\ InsertsFor(collections[2]) # {}


\* The run is over and ended as a success: the loop went through the whole
\* plan, the cleanup ran and the process exited with 0.
Completed ==
    Exited /\ exitCode = 0 /\ finished /\ spinner = "succeed" /\ failure = "none"

\* C12: after an import that ended as a success, every requested collection
\* (every collection, when none was named) that has a well-formed file in
\* the output directory holds the documents of that file in the destination,
\* whatever the source store contains.
C12_ImportRestoresBackup ==
    Completed =>
        \A c \in Names :
            (/\ Len(requested) = 0 \/ Includes(requested, c)
             /\ files[c].exists
             /\ JsonParse(files[c].text).ok) =>
                \A i \in DOMAIN JsonParse(files[c].text).docs :
                    Includes(dest[c], JsonParse(files[c].text).docs[i])


\* C13: a command line with both --export-json and --import-json is rejected
\* before anything is done: the process is still at its start or has exited
\* with 1, no store handle exists, and no store call, insert or file call
\* was issued; so initClients and the sink are never reached with both flags.
C13_BothFlagsRejected ==
    (exportJson /\ importJson) =>
        /\ pc \in {"start", "exited"}
        /\ Exited => exitCode = 1 /\ ~finished
        /\ srcClient = "absent" /\ dstClient = "absent" /\ ~everOpened
        /\ collections = requested
        /\ ioIdx = {} /\ readOps = 0 /\ insertLog = <<>> /\ fileOps = 0
        /\ written = {} /\ EmptySinks
        /\ spinner = "idle" /\ closeCalls = 0

\* A command line with both flags and a list of collections, rejected.
C13_Witness ==
    /\ exportJson /\ importJson /\ yes /\ Len(requested) = 2
    /\ Exited /\ exitCode = 1


\* ------------------------------------------- closeClients called alone --
\* The handles of a service when closeClients is called: none was created
\* (initClients was not called), a connect failed, or both are connected;
\* a handle that was closed before comes from an earlier call.
HandleStates ==
    {<<"absent", "absent">>, <<"created", "created">>,
     <<"open", "created">>, <<"open", "open">>}

\* A service constructed from any options, in any of these handle states,
\* on which closeClients is about to be called.
InitClose ==
    /\ storeNames \in StoreOrders
    /\ srcDocs = [c \in Names |-> <<>>]
    /\ requested \in Requests
    /\ collections = requested
    /\ batchSize \in 1..MaxBatch
    /\ dryRun \in BOOLEAN
    /\ yes = TRUE
    /\ exportJson = FALSE
    /\ importJson = FALSE
    /\ EmptySinks
    /\ \E h \in HandleStates :
          /\ srcClient = h[1] /\ dstClient = h[2]
          /\ everOpened = (h[1] = "open")
    /\ pc = "closing"
    /\ idx = 0 /\ totalDocs = 0 /\ processed = 0 /\ cursorPos = 0
    /\ batchLens = <<>> /\ reports = <<>>
    /\ spinner = "idle" /\ exitCode = -1
    /\ closeCalls = 0 /\ finished = FALSE /\ surfaced = FALSE
    /\ closeTried = {} /\ closeRaised = FALSE
    /\ plans = <<>>
    /\ failure = "none" /\ failedAt = 0
    /\ ioIdx = {} /\ readOps = 0 /\ insertLog = <<>> /\ fileOps = 0
    /\ written = {}
    /\ phase = "first" /\ prev = NoPrev /\ faults = 0

\* closeClients() is called, and may be called again.
CloseClientsCall ==
    /\ pc = "closing" /\ closeCalls < MaxCloses
    /\ CloseClients
    /\ UNCHANGED <<cfgVars, plans, srcVars, sinkVars, streamVars, opVars,
                   endVars, runVars, pc, idx, spinner, failure, failedAt>>

NextClose == CloseClientsCall

SpecClose == InitClose /\ [][NextClose]_vars

\* C14: a call of closeClients never rejects and calls close() on every
\* handle that exists, whether or not the close of the other one rejects,
\* and on no handle that is absent.
C14_CloseClientsIndependent ==
    closeCalls > 0 =>
        /\ ~closeRaised
        /\ closeTried = Handles

\* closeClients was called on two connected handles: the close of the source
\* rejected and left it open, the destination was closed all the same.
C14_Witness ==
    /\ closeCalls = 1
    /\ srcClient = "open" /\ dstClient = "closed"
    /\ closeTried = {"source", "dest"}


\* The number of documents handed to insertMany for collection c.
RECURSIVE SubmittedFrom(_, _)
SubmittedFrom(c, i) ==
    IF i > Len(insertLog) THEN 0
    ELSE (IF insertLog[i].name = c THEN insertLog[i].n ELSE 0)
         + SubmittedFrom(c, i + 1)

SubmittedFor(c) == SubmittedFrom(c, 1)

\* The number of batches a collection of n documents is traversed in.
BatchCount(n, b) == (n + b - 1) \div b

\* The collection at the loop's position is met for the first time.
FirstPass == \A j \in 1..(idx - 1) : collections[j] # CurName

\* C15: in import mode, while and after a collection whose file holds one
\* array of m documents is streamed with no call failing, m documents were
\* handed to insertMany for each batch read from the source: c * m in all
\* once the c = ceil(n / batchSize) batches of a source collection of n
\* documents are through, and none when the source collection is empty.
C15_ImportMultipliesByBatches ==
    (/\ importJson /\ ~exportJson /\ ~dryRun
     /\ pc \in {"batch", "loop"} /\ idx > 0 /\ failure = "none"
     /\ FirstPass
     /\ files[CurName].exists /\ JsonParse(files[CurName].text).ok) =>
        LET m == Len(JsonParse(files[CurName].text).docs)
            n == Len(srcDocs[CurName])
        IN  /\ SubmittedFor(CurName) = Len(batchLens) * m
            /\ Cardinality(InsertsFor(CurName)) = Len(batchLens)
            /\ pc = "loop" =>
                  /\ Len(batchLens) = BatchCount(n, batchSize)
                  /\ SubmittedFor(CurName) = BatchCount(n, batchSize) * m

\* A file of 2 documents was imported for a source collection traversed in
\* 3 batches: 6 documents were submitted and inserted.
C15_Witness ==
    /\ importJson /\ pc = "loop" /\ idx = 1 /\ failure = "none"
    /\ files[CurName].exists
    /\ Len(JsonParse(files[CurName].text).docs) = 2
    /\ Len(batchLens) = 3
    /\ SubmittedFor(CurName) = 6
    /\ Len(dest[CurName]) = 6


\* ------------------------------------------------ an export to files --
\* A file of the output directory before an export: absent, or left by an
\* earlier export that appended one batch to it.
EarlierFiles ==
    {NoFile} \cup {[exists |-> TRUE, text |-> JsonStringify(Docs(1))]}

\* An invocation with --export-json and --yes; the output directory may
\* hold files of an earlier export.
InitExport ==
    /\ storeNames \in StoreOrders
    /\ srcDocs \in SourceContents(storeNames)
    /\ requested \in Requests
    /\ collections = requested
    /\ batchSize \in 1..MaxBatch
    /\ dryRun = FALSE
    /\ yes = TRUE
    /\ exportJson = TRUE
    /\ importJson = FALSE
    /\ dest = [c \in Names |-> <<>>]
    /\ files \in [Names -> EarlierFiles]
    /\ dirExists = \E c \in Names : files[c].exists
    /\ appends = [c \in Names |-> IF files[c].exists THEN 1 ELSE 0]
    /\ torn = {}
    /\ ProcessStart
    /\ phase = "first" /\ prev = NoPrev /\ faults = 0

NextExport ==
    \/ MainValidate
    \/ DynamicImportCopyServiceFault
    \/ InitClientsOk
    \/ InitClientsFault
    \/ ListCollectionsOk
    \/ ListCollectionsFault
    \/ NextCollection
    \/ CountDocuments
    \/ CountDocumentsFault
    \/ StreamBatch
    \/ StreamEnd
    \/ StreamReadFault
    \/ StreamSinkFault
    \/ FinallyClose
    \/ MainFinish

SpecExport == InitExport /\ [][NextExport]_vars

\* The number of tokens tok in a text.
CountTok(text, tok) == Cardinality({i \in DOMAIN text : text[i] = tok})

\* The text is arrays side by side, with nothing between one array's end
\* and the next array's start.
ArraysSideBySide(text) ==
    /\ Len(text) >= 2 /\ text[1] = LB /\ text[Len(text)] = RB
    /\ \A i \in 1..(Len(text) - 1) : text[i] = RB <=> text[i + 1] = LB

\* C16: a file that no failed write has touched is the serialized arrays of
\* the appends made to it, side by side with nothing between them and
\* nothing around them, and parses as one array when one append was made to
\* it; no file parses as one array unless exactly one append was made to it;
\* so the file of a collection exported in more than one batch does not
\* parse.
C16_ExportFileIsConcatenation ==
    /\ \A c \in Names :
          /\ JsonParse(files[c].text).ok => appends[c] = 1
          /\ c \notin torn =>
                /\ files[c].exists <=> appends[c] >= 1
                /\ files[c].exists =>
                      /\ ArraysSideBySide(files[c].text)
                      /\ CountTok(files[c].text, LB) = appends[c]
                      /\ appends[c] = 1 => JsonParse(files[c].text).ok
    /\ (exportJson /\ pc = "loop" /\ idx > 0 /\ failure = "none"
        /\ Len(batchLens) > 1) =>
          /\ appends[CurName] >= Len(batchLens)
          /\ ~JsonParse(files[CurName].text).ok

\* A collection of 3 documents was exported into an empty directory in two
\* batches: its file holds two arrays and does not parse.
C16_Witness ==
    /\ exportJson /\ pc = "loop" /\ idx = 1 /\ failure = "none"
    /\ batchLens = <<2, 1>>
    /\ appends[CurName] = 2
    /\ files[CurName].text = JsonStringify(<<1, 2>>) \o JsonStringify(<<3>>)
    /\ ~JsonParse(files[CurName].text).ok


\* ----------------------------------------- listCollections called alone --
\* A connected service, constructed from any options, on which
\* listCollections is about to be called.
InitResolve ==
    /\ storeNames \in StoreOrders
    /\ srcDocs \in SourceContents(storeNames)
    /\ requested \in Requests
    /\ collections = requested
    /\ batchSize \in 1..MaxBatch
    /\ dryRun \in BOOLEAN
    /\ yes = TRUE
    /\ exportJson = FALSE
    /\ importJson = FALSE
    /\ EmptySinks
    /\ srcClient = "open" /\ dstClient = "open" /\ everOpened = TRUE
    /\ pc = "list"
    /\ idx = 0 /\ totalDocs = 0 /\ processed = 0 /\ cursorPos = 0
    /\ batchLens = <<>> /\ reports = <<>>
    /\ spinner = "idle" /\ exitCode = -1
    /\ closeCalls = 0 /\ finished = FALSE /\ surfaced = FALSE
    /\ closeTried = {} /\ closeRaised = FALSE
    /\ plans = <<>>
    /\ failure = "none" /\ failedAt = 0
    /\ ioIdx = {} /\ readOps = 0 /\ insertLog = <<>> /\ fileOps = 0
    /\ written = {}
    /\ phase = "first" /\ prev = NoPrev /\ faults = 0

\* listCollections() is called, and may be called again.
ListCollectionsCall ==
    /\ pc = "list" /\ Len(plans) < MaxLists
    /\ ListCollections
    /\ UNCHANGED <<requested, batchSize, dryRun, yes, exportJson, importJson,
                   srcVars, sinkVars, clientVars, streamVars, opVars, endVars,
                   runVars, closeVars, pc, idx, spinner, closeCalls, failure,
                   failedAt, faults>>

NextResolve == ListCollectionsCall

SpecResolve == InitResolve /\ [][NextResolve]_vars

\* C17: resolving the plan leaves the collection names the service was
\* constructed with unchanged, and every call of listCollections against
\* the same source returns the same plan.
C17_ResolveLeavesRequestUnchanged ==
    /\ Len(plans) > 0 => collections = requested
    /\ \A i \in DOMAIN plans : plans[i] = plans[1]


\* ------------------------------------- any batch size the tool accepts --
\* What --batch-size can give: nothing, or what parseInt returns.
CliBatchValues == {NotANumber} \cup {Num(n) : n \in -1..2}

\* What env.BATCH_SIZE can hold; main takes it when it is a finite number.
EnvBatchValues == {NotANumber} \cup {Num(n) : n \in {-1, 0, 2}}

\* The batch sizes the service can run with.
BatchSizes ==
    {ServiceBatchSize(MainBatchSize(cli, env)) :
        cli \in CliBatchValues, env \in EnvBatchValues}

\* An invocation with --yes, one of the three sinks and any batch size.
InitBatch ==
    /\ storeNames \in StoreOrders
    /\ srcDocs \in SourceContents(storeNames)
    /\ requested \in Requests
    /\ collections = requested
    /\ batchSize \in BatchSizes
    /\ dryRun = FALSE
    /\ yes = TRUE
    /\ exportJson \in BOOLEAN
    /\ importJson \in BOOLEAN
    /\ ~BothJsonFlags
    /\ EmptySinks
    /\ ProcessStart
    /\ phase = "first" /\ prev = NoPrev /\ faults = 0

NextBatch ==
    \/ MainValidate
    \/ DynamicImportCopyServiceFault
    \/ InitClientsOk
    \/ InitClientsFault
    \/ ListCollectionsOk
    \/ ListCollectionsFault
    \/ NextCollection
    \/ CountDocuments
    \/ CountDocumentsFault
    \/ StreamBatch
    \/ StreamEnd
    \/ StreamReadFault
    \/ StreamSinkFault
    \/ FinallyClose
    \/ MainFinish

SpecBatch == InitBatch /\ [][NextBatch]_vars

\* C18: whatever batch size the service runs with, as long as no call has
\* failed every turn of copyCollection's while loop has taken at least one
\* document from the cursor, so a collection of n documents is through
\* after at most n turns.
C18_EveryTurnConsumes ==
    (idx > 0 /\ pc \in {"batch", "loop"} /\ failure = "none") =>
        /\ \A i \in DOMAIN batchLens : batchLens[i] >= 1
        /\ Len(batchLens) <= Len(srcDocs[CurName])
        /\ cursorPos = Sum(batchLens)


\* C19: no collection is streamed twice in one run: the plan positions for
\* which a store call was issued name different collections.
C19_NoCollectionStreamedTwice ==
    \A i \in ioIdx, j \in ioIdx : i # j => collections[i] # collections[j]

====
